---- MODULE Spec2Model ----
(***************************************************************************)
(* MovieDB/mainapp/models.py as a state machine: the relational store the  *)
(* models declare (Movie, Person, Role, Vote, MovieImage and the user      *)
(* table), the constraints the declarations put on it (unique_together,    *)
(* on_delete, foreign keys) and the manager methods that query it.         *)
(*                                                                         *)
(* Movie.director (SET_NULL) and Movie.writers are not part of the state:  *)
(* no property checked here reads them.                                    *)
(***************************************************************************)
EXTENDS Integers, Sequences, FiniteSets, TLC

\* ------------------------------------------------------------ bounds
\* Movie rows and Person rows ever created.
MaxId == 2
\* Vote rows ever inserted.
MaxVotes == 2
\* MovieImage rows ever inserted.
MaxImages == 2
\* MovieImage rows ever inserted while votes are cast too (SpecCascade).
MaxCascadeImages == 1
\* Largest limit passed to top_movies.
MaxLimit == 3

\* ------------------------------------------------------------ constants
UP == 1
DOWN == -1
VALUE_CHOICES == {UP, DOWN}

\* Python's None / SQL NULL, and a present value.
None == {}
Some(x) == {x}
Val(o) == CHOOSE x \in o : TRUE

\* Role names, original file names and the values uuid.uuid4() can draw.
RoleNames == {"Neo"}
FileNames == {"a.png", "b.jpg"}
UUIDs == {"uuid-a", "uuid-b"}

\* The requests that run concurrently against the Vote table.
Procs == {"r1", "r2"}

\* The rows of a store that is already populated: movies and users.
StoredMovies == {1, 2}
StoredUsers == {1, 2}
\* The movies of the store that is queried.
QueriedMovies == {1, 2, 3}

VARIABLES
    movies,   \* ids of the Movie rows
    users,    \* ids of the user rows
    persons,  \* ids of the Person rows
    roles,    \* Role rows: [movie, person, name]
    votes,    \* Vote rows: [id, user, movie, value]
    images,   \* MovieImage rows: [id, movie, user, image]
    seq,      \* last auto-increment id handed out, per table
    ret,      \* the last call: its name, how it ended, and for a query its
              \* limit (arg) and the rows it returned
    pc,       \* per request: "idle", "got", "done"
    obj,      \* per request: the Vote instance it holds
    out       \* per request: how its save() ended

vars == <<movies, users, persons, roles, votes, images, seq, ret, pc, obj, out>>
store == <<movies, users, persons, roles, votes, images, seq>>
requests == <<pc, obj, out>>

NoRows == <<>>
Ret(op, arg, status, rows) ==
    [op |-> op, arg |-> arg, status |-> status, rows |-> rows]

NoObj == [id |-> None, user |-> 0, movie |-> 0, value |-> None]

\* ------------------------------------------------------------ Init
Max(S) == IF S = {} THEN 0 ELSE CHOOSE x \in S : \A y \in S : y <= x

\* A store that holds the movies ms, the users us and the votes vs and
\* nothing else, the id counters after their creation, and no request under
\* way.
InitWith(ms, us, vs) ==
    /\ movies = ms /\ users = us /\ persons = {}
    /\ roles = {} /\ votes = vs /\ images = {}
    /\ seq = [movie |-> Max(ms), user |-> Max(us), person |-> 0,
              vote |-> Cardinality(vs), image |-> 0]
    /\ ret = Ret("none", 0, "ok", NoRows)
    /\ pc = [p \in Procs |-> "idle"]
    /\ obj = [p \in Procs |-> NoObj]
    /\ out = [p \in Procs |-> "none"]

\* The empty store.
Init == InitWith({}, {}, {})

\* ------------------------------------------------------------ inserts
\* Movie.objects.create(...): a new row under the next id.
CreateMovie ==
    /\ seq.movie < MaxId
    /\ movies' = movies \cup {seq.movie + 1}
    /\ seq' = [seq EXCEPT !.movie = @ + 1]
    /\ ret' = Ret("create_movie", 0, "ok", NoRows)
    /\ UNCHANGED <<users, persons, roles, votes, images, requests>>

CreatePerson ==
    /\ seq.person < MaxId
    /\ persons' = persons \cup {seq.person + 1}
    /\ seq' = [seq EXCEPT !.person = @ + 1]
    /\ ret' = Ret("create_person", 0, "ok", NoRows)
    /\ UNCHANGED <<movies, users, roles, votes, images, requests>>

\* Role(movie=m, person=q, name=n).save(): both foreign keys are database
\* constraints, and (movie, person, name) is unique.
InsertRole(m, q, n) ==
    LET row == [movie |-> m, person |-> q, name |-> n]
        accepted == m \in movies /\ q \in persons /\ row \notin roles
    IN  /\ roles' = IF accepted THEN roles \cup {row} ELSE roles
        /\ ret' = Ret("insert_role", 0,
                      IF accepted THEN "ok" ELSE "IntegrityError", NoRows)
        /\ UNCHANGED <<movies, users, persons, votes, images, seq, requests>>

\* ------------------------------------------------------------ Vote
\* The rows Vote.objects.get(movie=m, user=u) matches.
VoteRows(u, m) == {v \in votes : v.user = u /\ v.movie = m}

\* A Vote row as the model instance the ORM builds from it.
Instance(v) ==
    [id |-> Some(v.id), user |-> v.user, movie |-> v.movie,
     value |-> Some(v.value)]

\* Vote(movie=m, user=u, value=UP): a blank vote that carries a value.
BlankVoteWithValue(u, m) ==
    [id |-> None, user |-> u, movie |-> m, value |-> Some(UP)]

\* Vote(movie=m, user=u): no primary key, no value.
BlankVote(u, m) == [id |-> None, user |-> u, movie |-> m, value |-> None]

\* VoteManager.get_vote_or_unsaved_blank_vote(movie, user): the stored row,
\* or on DoesNotExist a new instance that is not saved.
get_vote_or_unsaved_blank_vote(m, u) ==
    IF VoteRows(u, m) # {}
    THEN Instance(CHOOSE v \in VoteRows(u, m) : TRUE)
    ELSE BlankVote(u, m)

\* Vote.user and Vote.movie are foreign keys the database enforces.
VoteForeignKeysHold(u, m) == u \in users /\ m \in movies

\* No unique_together: any (user, movie) may be inserted again.
NoUniqueTogether(u, m) == TRUE

\* Meta.unique_together = ('user', 'movie').
VoteUniqueTogether(u, m) == VoteRows(u, m) = {}

\* save(force_insert=True): never an UPDATE.
SaveAlwaysInserts(o) == FALSE

\* Whether o.save() finds its row: an instance with a primary key is saved
\* by UPDATE when a row has that key.
SaveUpdates(o) == o.id # None /\ \E v \in votes : v.id = Val(o.id)

\* o.save() for a Vote instance o whose value is set: UPDATE the row with
\* o's primary key; when o has none, or no row has it, INSERT, which the
\* database refuses when a foreign key dangles or (user, movie) is taken.
\* Gives the table, the id counter, the instance and the outcome.
SaveVote(o) ==
    IF SaveUpdates(o)
    THEN [votes |-> {IF v.id = Val(o.id)
                     THEN [id |-> v.id, user |-> o.user, movie |-> o.movie,
                           value |-> Val(o.value)]
                     ELSE v : v \in votes},
          seq |-> seq, obj |-> o, out |-> "updated"]
    ELSE IF VoteForeignKeysHold(o.user, o.movie)
            /\ VoteUniqueTogether(o.user, o.movie)
    THEN LET pk == IF o.id = None THEN seq.vote + 1 ELSE Val(o.id)
         IN  [votes |-> votes \cup {[id |-> pk, user |-> o.user,
                                     movie |-> o.movie,
                                     value |-> Val(o.value)]},
              seq |-> IF o.id = None
                      THEN [seq EXCEPT !.vote = @ + 1] ELSE seq,
              obj |-> [o EXCEPT !.id = Some(pk)], out |-> "inserted"]
    ELSE [votes |-> votes, seq |-> seq, obj |-> o, out |-> "IntegrityError"]

\* Saving o stays within n Vote rows ever inserted: the bound of the model
\* on the id counter.
WithinVoteBound(o, n) == SaveUpdates(o) \/ o.id # None \/ seq.vote < n

\* A request that runs alone: look the vote up, set its value, save it.
CastVote(u, m, val) ==
    LET o == [get_vote_or_unsaved_blank_vote(m, u) EXCEPT !.value = Some(val)]
        r == SaveVote(o)
    IN  /\ votes' = r.votes
        /\ seq' = r.seq
        /\ ret' = Ret("cast_vote", 0, r.out, NoRows)
        /\ UNCHANGED <<movies, users, persons, roles, images, requests>>

\* Request p calls get_vote_or_unsaved_blank_vote(m, u) and keeps the result.
Get(p, m, u) ==
    /\ pc[p] \in {"idle", "got"}
    /\ pc' = [pc EXCEPT ![p] = "got"]
    /\ obj' = [obj EXCEPT ![p] = get_vote_or_unsaved_blank_vote(m, u)]
    /\ UNCHANGED <<store, ret, out>>

\* Request p sets the value of the instance it holds and saves it.
Save(p, val) ==
    LET o == [obj[p] EXCEPT !.value = Some(val)]
        r == SaveVote(o)
    IN  /\ pc[p] = "got"
        /\ WithinVoteBound(o, MaxVotes)
        /\ votes' = r.votes
        /\ seq' = r.seq
        /\ obj' = [obj EXCEPT ![p] = r.obj]
        /\ out' = [out EXCEPT ![p] = r.out]
        /\ pc' = [pc EXCEPT ![p] = "done"]
        /\ UNCHANGED <<movies, users, persons, roles, images, ret>>

\* Request p ends.
Return(p) ==
    /\ pc[p] = "done"
    /\ pc' = [pc EXCEPT ![p] = "idle"]
    /\ obj' = [obj EXCEPT ![p] = NoObj]
    /\ out' = [out EXCEPT ![p] = "none"]
    /\ UNCHANGED <<store, ret>>

\* CastVote(u, m, val) stays within n Vote rows ever inserted.
CastWithin(u, m, n) == WithinVoteBound(get_vote_or_unsaved_blank_vote(m, u), n)

\* ------------------------------------------------------------ MovieImage
\* A path that keeps the original file name.
movie_directory_path_with_filename(instance, filename, drawn) ==
    <<instance.movie, "/", filename>>

\* movie_directory_path_with_uuid(instance, filename), with drawn the value
\* uuid.uuid4() returns: f"{instance.movie_id}/{uuid}".
movie_directory_path_with_uuid(instance, filename, drawn) ==
    <<instance.movie, "/", drawn>>

\* MovieImage(movie=m, user=u, image=<file named filename>).save(): the path
\* comes from upload_to, then the row is inserted if its foreign keys hold.
UploadImage(m, u, filename, drawn) ==
    LET instance == [movie |-> m, user |-> u]
        path == movie_directory_path_with_uuid(instance, filename, drawn)
        accepted == m \in movies /\ u \in users
    IN  /\ seq.image < MaxImages
        /\ images' = IF accepted
                     THEN images \cup {[id |-> seq.image + 1, movie |-> m,
                                        user |-> u, image |-> path]}
                     ELSE images
        /\ seq' = IF accepted THEN [seq EXCEPT !.image = @ + 1] ELSE seq
        /\ ret' = Ret("upload_image", 0,
                      IF accepted THEN "ok" ELSE "IntegrityError", NoRows)
        /\ UNCHANGED <<movies, users, persons, roles, votes, requests>>

\* ------------------------------------------------------------ deletes
\* Role.movie and Role.person are on_delete=DO_NOTHING: the ORM leaves the
\* Role rows alone, and the foreign key constraint of the database then
\* refuses a delete that a Role row still references.
RoleReferencesMovie(m) == \E r \in roles : r.movie = m
RoleReferencesPerson(q) == \E r \in roles : r.person = q

\* movie.delete() with Vote.movie and MovieImage.movie left alone and not
\* checked: the rows of the movie stay.
DeleteMovieWithoutCascade(m) ==
    /\ m \in movies
    /\ IF RoleReferencesMovie(m)
       THEN /\ ret' = Ret("delete_movie", 0, "IntegrityError", NoRows)
            /\ UNCHANGED movies
       ELSE /\ movies' = movies \ {m}
            /\ ret' = Ret("delete_movie", 0, "ok", NoRows)
    /\ UNCHANGED <<users, persons, roles, votes, images, seq, requests>>

\* movie.delete() with Role.movie on_delete=CASCADE: the roles of the movie
\* go with it.
DeleteMovieCascadingRoles(m) ==
    /\ m \in movies
    /\ movies' = movies \ {m}
    /\ roles' = {r \in roles : r.movie # m}
    /\ votes' = {v \in votes : v.movie # m}
    /\ images' = {i \in images : i.movie # m}
    /\ ret' = Ret("delete_movie", 0, "ok", NoRows)
    /\ UNCHANGED <<users, persons, seq, requests>>

\* movie.delete(): Vote.movie and MovieImage.movie are on_delete=CASCADE.
DeleteMovie(m) ==
    /\ m \in movies
    /\ IF RoleReferencesMovie(m)
       THEN /\ ret' = Ret("delete_movie", 0, "IntegrityError", NoRows)
            /\ UNCHANGED <<movies, votes, images>>
       ELSE /\ movies' = movies \ {m}
            /\ votes' = {v \in votes : v.movie # m}
            /\ images' = {i \in images : i.movie # m}
            /\ ret' = Ret("delete_movie", 0, "ok", NoRows)
    /\ UNCHANGED <<users, persons, roles, seq, requests>>

\* user.delete(): Vote.user and MovieImage.user are on_delete=CASCADE.
DeleteUser(u) ==
    /\ u \in users
    /\ users' = users \ {u}
    /\ votes' = {v \in votes : v.user # u}
    /\ images' = {i \in images : i.user # u}
    /\ ret' = Ret("delete_user", 0, "ok", NoRows)
    /\ UNCHANGED <<movies, persons, roles, seq, requests>>

\* person.delete().
DeletePerson(q) ==
    /\ q \in persons
    /\ IF RoleReferencesPerson(q)
       THEN /\ ret' = Ret("delete_person", 0, "IntegrityError", NoRows)
            /\ UNCHANGED persons
       ELSE /\ persons' = persons \ {q}
            /\ ret' = Ret("delete_person", 0, "ok", NoRows)
    /\ UNCHANGED <<movies, users, roles, votes, images, seq, requests>>

\* ------------------------------------------------------------ MovieManager
\* Movie INNER JOIN Vote in place of the outer join: a movie that has no
\* vote has no row.
MovieVoteInnerJoin ==
    {[movie |-> v.movie, vote |-> Some(v.id), value |-> Some(v.value)] :
        v \in votes}

\* The rows of Movie LEFT OUTER JOIN Vote that annotate(Sum('vote__value'))
\* aggregates: one per vote of a movie, and one with NULLs for a movie that
\* has no vote.
MovieVoteJoin ==
    {[movie |-> v.movie, vote |-> Some(v.id), value |-> Some(v.value)] :
        v \in votes}
    \cup {[movie |-> m, vote |-> None, value |-> None] :
             m \in {x \in movies : \A v \in votes : v.movie # x}}

RECURSIVE SumRows(_)
SumRows(rows) ==
    IF rows = {} THEN 0
    ELSE LET r == CHOOSE x \in rows : TRUE
         IN  Val(r.value) + SumRows(rows \ {r})

\* SUM(DISTINCT value) in place of SUM(value).
SumDistinct(m) ==
    LET group == {r \in MovieVoteJoin : r.movie = m /\ r.value # None}
        values == {[value |-> r.value] : r \in group}
    IN  IF group = {} THEN None ELSE Some(SumRows(values))

\* SQL SUM over the group of movie m: NULL values are skipped, and the sum
\* of no value is NULL.
Sum(m) ==
    LET group == {r \in MovieVoteJoin : r.movie = m /\ r.value # None}
    IN  IF group = {} THEN None ELSE Some(SumRows(group))

\* The sequences that list each element of S once.
Orderings(S) ==
    {s \in [1..Cardinality(S) -> S] :
        \A i, j \in 1..Cardinality(S) : i # j => s[i] # s[j]}

Min(a, b) == IF a <= b THEN a ELSE b

\* MovieManager.all_with_related_persons_and_scores(): the results it can
\* return. select_related and prefetch_related add no row and drop none;
\* the order is Meta.ordering, over columns that are not part of the state.
all_with_related_persons_and_scores ==
    LET joined == {r.movie : r \in MovieVoteJoin}
    IN  Orderings({[movie |-> m, score |-> Sum(m)] : m \in joined})

\* top_movies with order_by('vote_sum'): ascending.
top_movies_ascending(limit) ==
    LET joined == {r.movie : r \in MovieVoteJoin}
        annotated == {[movie |-> m, vote_sum |-> Sum(m)] : m \in joined}
        excluded == {r \in annotated : r.vote_sum # None}
        ordered == {s \in Orderings(excluded) :
                      \A i, j \in DOMAIN s :
                         i < j => Val(s[i].vote_sum) <= Val(s[j].vote_sum)}
    IN  {SubSeq(s, 1, Min(limit, Len(s))) : s \in ordered}

\* top_movies without exclude(vote_sum=None): the rows whose vote_sum is
\* NULL sort after the others.
top_movies_unfiltered(limit) ==
    LET joined == {r.movie : r \in MovieVoteJoin}
        annotated == {[movie |-> m, vote_sum |-> Sum(m)] : m \in joined}
        ordered == {s \in Orderings(annotated) :
                      \A i, j \in DOMAIN s :
                         i < j =>
                            \/ s[j].vote_sum = None
                            \/ /\ s[i].vote_sum # None
                               /\ Val(s[i].vote_sum) >= Val(s[j].vote_sum)}
    IN  {SubSeq(s, 1, Min(limit, Len(s))) : s \in ordered}

\* MovieManager.top_movies(limit): the results it can return. Rows of equal
\* vote_sum come in the order the database gives them.
top_movies(limit) ==
    LET joined == {r.movie : r \in MovieVoteJoin}
        annotated == {[movie |-> m, vote_sum |-> Sum(m)] : m \in joined}
        excluded == {r \in annotated : r.vote_sum # None}
        ordered == {s \in Orderings(excluded) :
                      \A i, j \in DOMAIN s :
                         i < j => Val(s[i].vote_sum) >= Val(s[j].vote_sum)}
    IN  {SubSeq(s, 1, Min(limit, Len(s))) : s \in ordered}

\* A caller evaluates Movie.objects.top_movies(limit).
TopMovies(limit) ==
    /\ \E rows \in top_movies(limit) :
          ret' = Ret("top_movies", limit, "ok", rows)
    /\ UNCHANGED <<store, requests>>

\* A caller evaluates Movie.objects.all_with_related_persons_and_scores().
AllWithScores ==
    /\ \E rows \in all_with_related_persons_and_scores :
          ret' = Ret("all_with_related_persons_and_scores", 0, "ok", rows)
    /\ UNCHANGED <<store, requests>>

\* ------------------------------------------------------------ Spec
\* Ids a caller can name under Spec: those of rows that are stored, gone or
\* not yet there.
MovieIds == 1..MaxId
PersonIds == 1..MaxId

\* Movies, people and the roles between them, from the empty store.
Next ==
    \/ CreateMovie
    \/ CreatePerson
    \/ \E m \in MovieIds, q \in PersonIds, n \in RoleNames : InsertRole(m, q, n)
    \/ \E m \in MovieIds : DeleteMovie(m)
    \/ \E q \in PersonIds : DeletePerson(q)

Spec == Init /\ [][Next]_vars

\* Votes and images of a populated store, and the deletes that cascade. A
\* caller names the rows the store began with, which a delete makes dangle.
InitCascade == InitWith(StoredMovies, StoredUsers, {})

NextCascade ==
    \/ \E u \in StoredUsers, m \in StoredMovies, val \in VALUE_CHOICES :
          CastWithin(u, m, MaxVotes) /\ CastVote(u, m, val)
    \/ \E m \in StoredMovies, u \in StoredUsers, f \in FileNames, d \in UUIDs :
          seq.image < MaxCascadeImages /\ UploadImage(m, u, f, d)
    \/ \E m \in StoredMovies : DeleteMovie(m)
    \/ \E u \in StoredUsers : DeleteUser(u)

SpecCascade == InitCascade /\ [][NextCascade]_vars

\* Images uploaded to a populated store.
NextImage ==
    \/ \E m \in StoredMovies, u \in StoredUsers, f \in FileNames, d \in UUIDs :
          UploadImage(m, u, f, d)
    \/ \E m \in StoredMovies : DeleteMovie(m)

SpecImage == InitCascade /\ [][NextImage]_vars

\* Two requests that vote at the same time on a populated store, while
\* movies and users are deleted.
NextVote ==
    \/ \E p \in Procs, m \in StoredMovies, u \in StoredUsers : Get(p, m, u)
    \/ \E p \in Procs, val \in VALUE_CHOICES : Save(p, val)
    \/ \E p \in Procs : Return(p)
    \/ \E m \in StoredMovies : DeleteMovie(m)
    \/ \E u \in StoredUsers : DeleteUser(u)

SpecVote == InitCascade /\ [][NextVote]_vars

\* The queries of MovieManager, on every table of votes that the users can
\* have cast on the movies, and as the users change their votes. The votes
\* were cast user by user and movie by movie, so the ids follow that order.
VotePairs == StoredUsers \X QueriedMovies

CastBefore(a, b) == a[1] < b[1] \/ (a[1] = b[1] /\ a[2] < b[2])

VotesCast(present, value) ==
    {[id |-> Cardinality({q \in present : CastBefore(q, pr)}) + 1,
      user |-> pr[1], movie |-> pr[2], value |-> value[pr]] : pr \in present}

InitQuery ==
    \E present \in SUBSET VotePairs :
        \E value \in [present -> VALUE_CHOICES] :
            InitWith(QueriedMovies, StoredUsers, VotesCast(present, value))

NextQuery ==
    \/ \E u \in StoredUsers, m \in QueriedMovies, val \in VALUE_CHOICES :
          VoteRows(u, m) # {} /\ CastVote(u, m, val)
    \/ \E limit \in 0..MaxLimit : TopMovies(limit)
    \/ AllWithScores

SpecQuery == InitQuery /\ [][NextQuery]_vars

\* ------------------------------------------------------------ properties
\* The stored votes of movie m and the sum of their values, read off the
\* Vote table.
VotesOf(m) == {v \in votes : v.movie = m}

RECURSIVE SumOfVotes(_)
SumOfVotes(vs) ==
    IF vs = {} THEN 0
    ELSE LET v == CHOOSE x \in vs : TRUE
         IN  v.value + SumOfVotes(vs \ {v})

StoredSum(m) == SumOfVotes(VotesOf(m))

Returned(rows) == {rows[i].movie : i \in DOMAIN rows}

\* C1: top_movies(limit=N) returns at most N movies, each a stored movie and
\* none twice, in non-increasing order of the sum of their votes, and no
\* movie with votes that is left out has a strictly larger sum than a movie
\* that is returned.
TopMoviesSortedAndCut ==
    ret.op = "top_movies" =>
        LET rows == ret.rows
        IN  /\ Len(rows) <= ret.arg
            /\ Returned(rows) \subseteq movies
            /\ \A i, j \in DOMAIN rows : i # j => rows[i].movie # rows[j].movie
            /\ \A i, j \in DOMAIN rows :
                  i < j => StoredSum(rows[i].movie) >= StoredSum(rows[j].movie)
            /\ \A m \in movies \ Returned(rows) :
                  VotesOf(m) # {} =>
                     \A i \in DOMAIN rows :
                        StoredSum(m) <= StoredSum(rows[i].movie)

\* C1 witness: a result cut at limit 2 whose two movies have different
\* sums, while a third movie with votes, tied with the second, is left out.
TopMoviesSortedAndCutWitness ==
    /\ ret.op = "top_movies" /\ ret.arg = 2 /\ Len(ret.rows) = 2
    /\ StoredSum(ret.rows[1].movie) > StoredSum(ret.rows[2].movie)
    /\ \E m \in movies \ Returned(ret.rows) :
          VotesOf(m) # {} /\ StoredSum(m) = StoredSum(ret.rows[2].movie)

\* C2: whatever the limit, every movie top_movies returns has at least one
\* Vote row and a vote_sum that is not NULL.
TopMoviesHaveVotes ==
    ret.op = "top_movies" =>
        \A i \in DOMAIN ret.rows :
            VotesOf(ret.rows[i].movie) # {} /\ ret.rows[i].vote_sum # None

\* C2 witness: a limit that has room for every movie, a movie without votes
\* that is not returned, and a returned movie whose votes sum to 0.
TopMoviesHaveVotesWitness ==
    /\ ret.op = "top_movies" /\ ret.arg >= Cardinality(movies)
    /\ \E m \in movies \ Returned(ret.rows) : VotesOf(m) = {}
    /\ \E i \in DOMAIN ret.rows : ret.rows[i].vote_sum = Some(0)

\* C3: the vote_sum of every movie top_movies returns is the sum of the
\* values of the Vote rows stored for that movie.
TopMoviesSumIsStoredSum ==
    ret.op = "top_movies" =>
        \A i \in DOMAIN ret.rows :
            ret.rows[i].vote_sum = Some(StoredSum(ret.rows[i].movie))

\* C3 witness: a returned movie with two UP votes (sum 2) and a returned
\* movie with an UP and a DOWN vote (sum 0).
TopMoviesSumIsStoredSumWitness ==
    /\ ret.op = "top_movies"
    /\ \E i, j \in DOMAIN ret.rows :
          /\ ret.rows[i].vote_sum = Some(2)
          /\ Cardinality(VotesOf(ret.rows[i].movie)) = 2
          /\ ret.rows[j].vote_sum = Some(0)
          /\ Cardinality(VotesOf(ret.rows[j].movie)) = 2

\* C9: all_with_related_persons_and_scores returns every stored movie once
\* and nothing else; the score of a movie is the sum of the values of its
\* Vote rows, and NULL exactly when it has none.
ScoresCoverEveryMovie ==
    ret.op = "all_with_related_persons_and_scores" =>
        LET rows == ret.rows
        IN  /\ Returned(rows) = movies
            /\ Len(rows) = Cardinality(movies)
            /\ \A i \in DOMAIN rows :
                  rows[i].score = IF VotesOf(rows[i].movie) = {}
                                  THEN None
                                  ELSE Some(StoredSum(rows[i].movie))

\* C9 witness: a result that holds a movie without votes (score NULL), a
\* movie whose votes sum to 0 and a movie with two DOWN votes.
ScoresCoverEveryMovieWitness ==
    /\ ret.op = "all_with_related_persons_and_scores"
    /\ \E i, j, k \in DOMAIN ret.rows :
          /\ ret.rows[i].score = None
          /\ ret.rows[j].score = Some(0)
          /\ ret.rows[k].score = Some(-2)

\* C7: no stored Vote or MovieImage references a movie that is not stored,
\* and no stored Vote references a user that is not stored: a delete takes
\* the rows that reference the deleted row with it.
NoDanglingVoteOrImage ==
    /\ \A v \in votes : v.movie \in movies /\ v.user \in users
    /\ \A i \in images : i.movie \in movies

\* C7 witness: a movie was just deleted, a vote and an image went with it
\* (fewer rows than were ever inserted), and votes of another movie stay.
NoDanglingVoteOrImageWitness ==
    /\ ret.op = "delete_movie" /\ ret.status = "ok"
    /\ Cardinality(movies) < Cardinality(StoredMovies)
    /\ users = StoredUsers
    /\ seq.vote > Cardinality(votes)
    /\ seq.image > Cardinality(images)
    /\ votes # {}

\* C8 as stated: the delete of a movie or person that Role rows reference
\* succeeds, and the Role rows stay.
DeleteOrphansRoles ==
    [][/\ \A m \in MovieIds :
            DeleteMovie(m) /\ RoleReferencesMovie(m) =>
                m \notin movies' /\ roles' = roles
       /\ \A q \in PersonIds :
            DeletePerson(q) /\ RoleReferencesPerson(q) =>
                q \notin persons' /\ roles' = roles]_vars

\* C8, amended: no delete of a movie or person removes or changes a Role
\* row; the delete of a movie or person that Role rows reference is refused
\* with an IntegrityError and leaves the movie or person stored, so that no
\* Role row is ever orphaned.
DeleteKeepsRoles ==
    /\ [](\A r \in roles : r.movie \in movies /\ r.person \in persons)
    /\ [][/\ \A m \in MovieIds :
               DeleteMovie(m) =>
                  /\ roles' = roles
                  /\ RoleReferencesMovie(m) =>
                        /\ movies' = movies
                        /\ ret'.status = "IntegrityError"
          /\ \A q \in PersonIds :
               DeletePerson(q) =>
                  /\ roles' = roles
                  /\ RoleReferencesPerson(q) =>
                        /\ persons' = persons
                        /\ ret'.status = "IntegrityError"]_vars

\* C8 witness: the delete of a movie was just refused while a Role row
\* references a stored movie, and another movie, without roles, is gone.
DeleteKeepsRolesWitness ==
    /\ ret.op = "delete_movie" /\ ret.status = "IntegrityError"
    /\ roles # {}
    /\ seq.movie > Cardinality(movies)

SamePair(a, b) == a.user = b.user /\ a.movie = b.movie

BothInserted(p, q) ==
    /\ p # q
    /\ pc[p] = "done" /\ pc[q] = "done"
    /\ SamePair(obj[p], obj[q])
    /\ obj[p].movie \in movies /\ obj[p].user \in users
    /\ out[p] \in {"inserted", "IntegrityError"}
    /\ out[q] \in {"inserted", "IntegrityError"}

OneVotePerUserAndMovie ==
    /\ [](\A v, w \in votes : SamePair(v, w) => v = w)
    /\ [](\A p, q \in Procs : BothInserted(p, q) => out[p] # out[q])
    /\ [][\A p \in Procs, val \in VALUE_CHOICES :
             /\ Save(p, val)
             /\ obj[p].id = None
             /\ VoteRows(obj[p].user, obj[p].movie) # {}
             => out'[p] = "IntegrityError" /\ votes' = votes]_vars

\* C4 witness: both requests have saved a blank vote for the same pair, the
\* movie and the user are stored, one insert went through, one was refused.
OneVotePerUserAndMovieWitness ==
    \E p, q \in Procs :
        /\ BothInserted(p, q)
        /\ out[p] = "inserted" /\ out[q] = "IntegrityError"
        /\ obj[q].id = None
        /\ Cardinality(VoteRows(obj[p].user, obj[p].movie)) = 1

\* C5: while no Vote is stored for (movie, user), each call of
\* get_vote_or_unsaved_blank_vote(movie, user) returns a Vote of that movie
\* and user without primary key and without value, adds no row and ends
\* without error; so does the next call, and so every instance a request
\* holds for a stored movie and user that have no row is blank.
BlankWhileNotStored ==
    /\ [](\A p \in Procs :
            /\ pc[p] = "got"
            /\ obj[p].movie \in movies /\ obj[p].user \in users
            /\ VoteRows(obj[p].user, obj[p].movie) = {}
            => obj[p].id = None /\ obj[p].value = None)
    /\ [][\A p \in Procs, m \in StoredMovies, u \in StoredUsers :
             Get(p, m, u) /\ VoteRows(u, m) = {} =>
                /\ obj'[p] = [id |-> None, user |-> u, movie |-> m,
                              value |-> None]
                /\ pc'[p] = "got"
                /\ votes' = votes /\ seq' = seq]_vars

\* C5 witness: two calls for the same stored movie and user, one after the
\* other with no save between them: both requests hold a blank vote and no
\* row is stored.
BlankWhileNotStoredWitness ==
    \E p, q \in Procs :
        /\ p # q /\ pc[p] = "got" /\ pc[q] = "got"
        /\ SamePair(obj[p], obj[q])
        /\ obj[p].movie \in movies /\ obj[p].user \in users
        /\ obj[p].id = None /\ obj[q].id = None
        /\ votes = {}

\* C6: when a Vote is stored for (movie, user),
\* get_vote_or_unsaved_blank_vote returns that row, with its id and its
\* current value, and adds none; saving the instance with a new value
\* while its row is stored updates that row: the row keeps its id, its
\* movie and its user, (movie, user) keeps exactly one row, no other row
\* changes, and the sum of the votes of the movie changes by the new value
\* minus the stored one, which is the value the instance held when no
\* other save came between (2 from DOWN to UP).
StoredVoteIsUpdatedInPlace ==
    [][/\ \A p \in Procs, m \in StoredMovies, u \in StoredUsers :
            Get(p, m, u) /\ VoteRows(u, m) # {} =>
                /\ \E v \in VoteRows(u, m) :
                      obj'[p] = [id |-> Some(v.id), user |-> u, movie |-> m,
                                 value |-> Some(v.value)]
                /\ votes' = votes
       /\ \A p \in Procs, val \in VALUE_CHOICES :
            Save(p, val) /\ obj[p].id # None =>
                \A v \in votes :
                    v.id = Val(obj[p].id) =>
                        /\ out'[p] = "updated"
                        /\ votes' = (votes \ {v}) \cup {[v EXCEPT !.value = val]}
                        /\ Cardinality({w \in votes' : SamePair(w, v)}) = 1
                        /\ SumOfVotes({w \in votes' : w.movie = v.movie})
                              = StoredSum(v.movie) + val - v.value
                        /\ obj[p].value = Some(v.value) =>
                              SumOfVotes({w \in votes' : w.movie = v.movie})
                                 = StoredSum(v.movie) + val - Val(obj[p].value)
                        /\ (obj[p].value = Some(DOWN) /\ v.value = DOWN
                               /\ val = UP) =>
                              SumOfVotes({w \in votes' : w.movie = v.movie})
                                 = StoredSum(v.movie) + 2]_vars

\* C6 witness: a request has saved UP into a stored row (an UPDATE) of
\* which the other request still holds the instance it got before, with the
\* same id and the value DOWN.
StoredVoteIsUpdatedInPlaceWitness ==
    \E p, q \in Procs :
        /\ pc[p] = "done" /\ out[p] = "updated" /\ obj[p].value = Some(UP)
        /\ pc[q] = "got" /\ obj[q].id = obj[p].id /\ obj[q].value = Some(DOWN)
        /\ \E v \in votes : obj[p].id = Some(v.id) /\ v.value = UP
        /\ Cardinality(VoteRows(obj[p].user, obj[p].movie)) = 1

====
